---- MODULE Spec2Model ----
(***************************************************************************)
(* A model of the moodle-submission-splitter script (splitting/split.py)  *)
(* and of its helpers (splitting/util.py).                                 *)
(*                                                                         *)
(* The script is one straight-line run.  pc names the statement the run   *)
(* is at; every action below is one statement or one helper call of the   *)
(* script, and the other variables are the script's module-level names.   *)
(*                                                                         *)
(* Text is modelled in two ways.  Where the code looks inside a string    *)
(* (the ',' of a tutor entry, the regex search over a submission name)    *)
(* the string is a sequence of pieces, and Str turns a sequence of pieces *)
(* into the string it spells.  Everywhere else a string is a string.      *)
(***************************************************************************)
EXTENDS Integers, Sequences, FiniteSets, TLC

VARIABLES
    pc,             \* the statement the run is at
    tutors_list,    \* args.tutors_list: the tutor entries, each a sequence of pieces
    exercise_num,   \* exercise_num (split.py:122)
    tutors_df,      \* tutors_df: the roster table
    listing,        \* os.listdir(unzip_dir): the submission names, each a sequence of characters
    submissions_df, \* submissions_df: the table of submission records
    chunks,         \* the list weighted_chunks returns
    args,           \* the parsed command line (split.py:86)
    info_df,        \* info_df: the rows of --info_file, <<>> without one
    chunk_index,    \* the i of the loop of split.py:180
    archives,       \* the ZIP files written so far: file name -> the names stored in it
    overview,       \* the lines of the overview CSV file, <<>> while there is none
    info_columns,   \* info_df.columns: the header of --info_file, in its order
    name_cols,      \* <<first_name_col, last_name_col>> (split.py:155-158), <<>> until set
    error           \* the exception that ended the run, NoError while it runs

vars == <<pc, tutors_list, exercise_num, tutors_df, listing, submissions_df, chunks,
          args, info_df, chunk_index, archives, overview, info_columns, name_cols, error>>

NoError == [type |-> "none"]

\* split.py:13-15
FULL_NAME_COL == "full_name"
MOODLE_ID_COL == "moodle_id"
SUBMISSION_COL == "submission_file"

\* a command line with neither an info file nor sorting or renaming keys
PlainArgs ==
    [info_file |-> FALSE,
     sorting_keys |-> <<>>,
     submission_renaming_keys |-> <<>>,
     submission_renaming_separator |-> "_",
     info_file_first_name_key |-> "first",
     info_file_last_name_key |-> "last",
     create_overview_file |-> FALSE]

\* the rest of the state of a run that has no info file and has written nothing
NothingElse ==
    /\ args = PlainArgs
    /\ info_df = <<>>
    /\ chunk_index = 0
    /\ archives = <<>>
    /\ overview = <<>>
    /\ info_columns = <<>>
    /\ name_cols = <<>>

(***************************************************************************)
(* Bounds of the model.                                                    *)
(***************************************************************************)
MaxTutors == 3
MaxShift == 4
MaxSubmissions == 49
MaxListing == 3
MaxInfoRows == 2
MaxRunListing == 2
MaxNames == 2
MaxNameRows == 2

\* dtype=float is the IEEE 754 double: 53 significant bits
MantissaBits == 53

\* the {7} of the two Moodle ID patterns (split.py:150-151)
MoodleIdDigits == 7

(***************************************************************************)
(* Helpers on sequences and text.                                          *)
(***************************************************************************)
RECURSIVE Str(_)
\* the string a sequence of pieces spells
Str(pieces) == IF pieces = <<>> THEN "" ELSE Head(pieces) \o Str(Tail(pieces))

\* sequences over S of length lo..hi
SeqsOf(S, lo, hi) == UNION {[1..n -> S] : n \in lo..hi}

\* those of them that repeat nothing, as a directory listing does
DistinctSeqsOf(S, lo, hi) ==
    {q \in SeqsOf(S, lo, hi) : \A i, j \in DOMAIN q : i # j => q[i] # q[j]}

RECURSIVE SumSeq(_)
SumSeq(s) == IF s = <<>> THEN 0 ELSE Head(s) + SumSeq(Tail(s))

(***************************************************************************)
(* The checks of the command line against the info file (split.py:88-117). *)
(* A key that is not given (None) is the empty string.                     *)
(***************************************************************************)
\* info_df.columns: the header of the info file
InfoColumns == {"first", "last", "key1", "key2"}

\* the values of a row under the given keys, in the order of the keys
KeyValues(row, keys) == [k \in DOMAIN keys |-> row[keys[k]]]

\* renaming_info_df.duplicated(): the rows that repeat an earlier row
RenamingDuplicates(df, keys) ==
    {i \in DOMAIN df : \E j \in 1..(i - 1) : KeyValues(df[j], keys) = KeyValues(df[i], keys)}

\* check_keys (split.py:98-102)
KeysInHeader(keys) == \A k \in DOMAIN keys : keys[k] \in InfoColumns

ArgsError(what) == [type |-> "ValueError", what |-> what]

\* the first check of split.py:88-117 that raises, NoError if none does
CheckArgsResult(a, df) ==
    IF a.sorting_keys # <<>> /\ ~a.info_file
    THEN ArgsError("--sorting_keys without --info_file")
    ELSE IF a.submission_renaming_keys # <<>> /\ ~a.info_file
    THEN ArgsError("--submission_renaming_keys without --info_file")
    ELSE IF /\ a.sorting_keys # <<>>
            /\ (a.info_file_first_name_key # "") # (a.info_file_last_name_key # "")
    THEN ArgsError("one name key without the other")
    ELSE IF ~a.info_file THEN NoError
    ELSE IF /\ a.sorting_keys # <<>>
            /\ ~KeysInHeader(a.sorting_keys
                    \o (IF a.info_file_first_name_key # ""
                        THEN <<a.info_file_first_name_key>> ELSE <<>>)
                    \o (IF a.info_file_last_name_key # ""
                        THEN <<a.info_file_last_name_key>> ELSE <<>>))
    THEN ArgsError("sorting or name key not in the header")
    ELSE IF a.submission_renaming_keys # <<>> /\ ~KeysInHeader(a.submission_renaming_keys)
    THEN ArgsError("renaming key not in the header")
    ELSE IF /\ a.submission_renaming_keys # <<>>
            /\ RenamingDuplicates(df, a.submission_renaming_keys) # {}
    THEN ArgsError("duplicate renaming values")
    ELSE NoError

CheckArgs ==
    /\ pc = "args"
    /\ error' = CheckArgsResult(args, info_df)
    /\ pc' = IF error' = NoError THEN "tutors" ELSE "failed"
    /\ UNCHANGED <<tutors_list, exercise_num, tutors_df, listing, submissions_df, chunks,
                   args, info_df, chunk_index, archives, overview,
                   info_columns, name_cols>>

(***************************************************************************)
(* extract_weighted_tutors (util.py:22-35).                                *)
(***************************************************************************)
\* "," in t
HasComma(t) == \E i \in DOMAIN t : t[i] = ","

\* the index of the first ',' of t
FirstComma(t) == CHOOSE i \in DOMAIN t : t[i] = "," /\ \A j \in 1..(i - 1) : t[j] # ","

\* t.split(",", maxsplit=1): the text before the first ',' and all the text after it
SplitName(t) == Str(SubSeq(t, 1, FirstComma(t) - 1))
SplitWeight(t) == Str(SubSeq(t, FirstComma(t) + 1, Len(t)))

\* float(text) on the numerals the model uses; any other text raises ValueError
FloatValue == [text \in {"1", "2"} |-> IF text = "1" THEN 1 ELSE 2]
FloatOk(text) == text \in DOMAIN FloatValue

\* the weighted branch stops at the first entry without ',' or with a weight float() rejects
FirstBadWeighted(list) ==
    LET bad == {i \in DOMAIN list : ~HasComma(list[i]) \/ ~FloatOk(SplitWeight(list[i]))}
    IN  IF bad = {} THEN 0 ELSE CHOOSE i \in bad : \A j \in bad : i <= j

ExtractWeightedTutorsMixedAccepted(list) ==
    IF HasComma(list[1])
    THEN LET b == FirstBadWeighted(list)
         IN  IF b = 0
             THEN [ok |-> TRUE,
                   rows |-> [i \in DOMAIN list |->
                                <<SplitName(list[i]), FloatValue[SplitWeight(list[i])]>>]]
             ELSE IF ~HasComma(list[b])
             THEN [ok |-> FALSE, error |-> [type |-> "ValueError", what |-> "expected ','", entry |-> b]]
             ELSE [ok |-> FALSE, error |-> [type |-> "ValueError", what |-> "float", entry |-> b]]
    ELSE [ok |-> TRUE, rows |-> [i \in DOMAIN list |-> <<Str(list[i])>>]]

ExtractWeightedTutors(list) ==
    IF HasComma(list[1])
    THEN LET b == FirstBadWeighted(list)
         IN  IF b = 0
             THEN [ok |-> TRUE,
                   rows |-> [i \in DOMAIN list |->
                                <<SplitName(list[i]), FloatValue[SplitWeight(list[i])]>>]]
             ELSE IF ~HasComma(list[b])
             THEN [ok |-> FALSE, error |-> [type |-> "ValueError", what |-> "expected ','", entry |-> b]]
             ELSE [ok |-> FALSE, error |-> [type |-> "ValueError", what |-> "float", entry |-> b]]
    ELSE IF \E i \in DOMAIN list : HasComma(list[i])
    THEN LET b == CHOOSE i \in DOMAIN list :
                      HasComma(list[i]) /\ \A j \in 1..(i - 1) : ~HasComma(list[j])
         IN  [ok |-> FALSE, error |-> [type |-> "ValueError", what |-> "unexpected ','", entry |-> b]]
    ELSE [ok |-> TRUE, rows |-> [i \in DOMAIN list |-> <<Str(list[i])>>]]

\* split.py:125-126 (the --tutors_list branch)
ReadTutors ==
    /\ pc = "tutors"
    /\ LET r == ExtractWeightedTutors(tutors_list)
       IN  IF r.ok
           THEN /\ tutors_df' = r.rows
                /\ pc' = "columns"
                /\ error' = error
           ELSE /\ tutors_df' = tutors_df
                /\ pc' = "failed"
                /\ error' = r.error
    /\ UNCHANGED <<args, info_df, chunk_index, archives, overview, tutors_list, exercise_num, listing, submissions_df, chunks,
                   info_columns, name_cols>>

(***************************************************************************)
(* Default weights and column names (split.py:127-131).                    *)
(***************************************************************************)
DefaultWeights(rows) ==
    [i \in DOMAIN rows |->
        [name |-> rows[i][1], weight |-> IF Len(rows[i]) = 1 THEN 1 ELSE rows[i][2]]]

AssignDefaultWeights ==
    /\ pc = "columns"
    /\ tutors_df' = DefaultWeights(tutors_df)
    /\ pc' = "roll"
    /\ UNCHANGED <<args, info_df, chunk_index, archives, overview, tutors_list, exercise_num, listing, submissions_df, chunks, error,
                   info_columns, name_cols>>

(***************************************************************************)
(* np.roll of both columns by exercise_num (split.py:132-133).             *)
(***************************************************************************)
\* np.roll(s, shift): the element at (0-based) index i moves to (i + shift) mod len
Roll(s, shift) ==
    [j \in DOMAIN s |-> s[((j - 1 - shift) % Len(s)) + 1]]

RollTutorsNamesOnly(df, shift) ==
    LET names == Roll([i \in DOMAIN df |-> df[i].name], shift)
    IN  [i \in DOMAIN df |-> [name |-> names[i], weight |-> df[i].weight]]

RollTutors(df, shift) ==
    LET names == Roll([i \in DOMAIN df |-> df[i].name], shift)
        weights == Roll([i \in DOMAIN df |-> df[i].weight], shift)
    IN  [i \in DOMAIN df |-> [name |-> names[i], weight |-> weights[i]]]

RollRoster ==
    /\ pc = "roll"
    /\ tutors_df' = RollTutors(tutors_df, exercise_num)
    /\ pc' = "dedup"
    /\ UNCHANGED <<args, info_df, chunk_index, archives, overview, tutors_list, exercise_num, listing, submissions_df, chunks, error,
                   info_columns, name_cols>>

(***************************************************************************)
(* handle_duplicate_names (util.py:38-51).                                 *)
(***************************************************************************)
\* tutors_df["name"].duplicated(keep=False): every occurrence of a repeated name
Duplicated(names) ==
    [i \in DOMAIN names |-> \E j \in DOMAIN names : j # i /\ names[j] = names[i]]

\* counts.get(name, 0)
CountOf(counts, name) == IF name \in DOMAIN counts THEN counts[name] ELSE 0

\* counts[name] = count
SetCount(counts, name, count) ==
    [n \in DOMAIN counts \cup {name} |-> IF n = name THEN count ELSE counts[n]]

\* f"{dn} ({count})"
NumberedName(dn, count) == dn \o " (" \o ToString(count) \o ")"

RECURSIVE RenameFrom(_, _, _, _)
\* the list comprehension of util.py:51, walking the roster from row i on
RenameFrom(names, dup, i, counts) ==
    IF i > Len(names) THEN names
    ELSE IF dup[i]
         THEN LET count == CountOf(counts, names[i]) + 1
              IN  RenameFrom([names EXCEPT ![i] = NumberedName(names[i], count)],
                             dup, i + 1, SetCount(counts, names[i], count))
         ELSE RenameFrom(names, dup, i + 1, counts)

HandleDuplicateNamesZeroBased(df) ==
    LET names == [i \in DOMAIN df |-> df[i].name]
        dup == Duplicated(names)
        zero == [i \in DOMAIN df |->
                    IF dup[i]
                    THEN NumberedName(names[i],
                             Cardinality({j \in 1..(i - 1) : names[j] = names[i]}))
                    ELSE names[i]]
    IN  [i \in DOMAIN df |-> [name |-> zero[i], weight |-> df[i].weight]]

HandleDuplicateNames(df) ==
    LET names == [i \in DOMAIN df |-> df[i].name]
        renamed == RenameFrom(names, Duplicated(names), 1, <<>>)
    IN  [i \in DOMAIN df |-> [name |-> renamed[i], weight |-> df[i].weight]]

DedupRoster ==
    /\ pc = "dedup"
    /\ tutors_df' = HandleDuplicateNames(tutors_df)
    /\ pc' = "extract"
    /\ UNCHANGED <<args, info_df, chunk_index, archives, overview, tutors_list, exercise_num, listing, submissions_df, chunks, error,
                   info_columns, name_cols>>

(***************************************************************************)
(* The roster part of the run: split.py:125-135 on a --tutors_list.        *)
(***************************************************************************)
TutorNames == {"Alex", "Sam", "Alex (1)"}
WeightTexts == {"1", "2", "x"}
TutorEntries ==
    {<<n>> : n \in TutorNames}
    \cup {<<n, ",", w>> : n \in TutorNames, w \in WeightTexts}
    \cup {<<"Sam", ",", "1", ",", "2">>}

InitRoster ==
    /\ pc = "tutors"
    /\ tutors_list \in SeqsOf(TutorEntries, 1, MaxTutors)
    /\ exercise_num \in (-1)..MaxShift
    /\ tutors_df = <<>>
    /\ listing = <<>>
    /\ submissions_df = <<>>
    /\ chunks = <<>>
    /\ error = NoError
    /\ NothingElse

NextRoster ==
    \/ ReadTutors
    \/ AssignDefaultWeights
    \/ RollRoster
    \/ DedupRoster

SpecRoster == InitRoster /\ [][NextRoster]_vars

(***************************************************************************)
(* match_full_names (util.py:65-99).  The function looks inside the full   *)
(* names and inside the values of the info file, so Spelling gives every   *)
(* such string of the model as its characters.                             *)
(***************************************************************************)
Spelling ==
    "Jane Doe" :> <<"J", "a", "n", "e", " ", "D", "o", "e">> @@
    "John Roe" :> <<"J", "o", "h", "n", " ", "R", "o", "e">> @@
    "Jo Roe" :> <<"J", "o", " ", "R", "o", "e">> @@
    "Cher" :> <<"C", "h", "e", "r">> @@
    "Jane" :> <<"J", "a", "n", "e">> @@
    "John" :> <<"J", "o", "h", "n">> @@
    "Doe" :> <<"D", "o", "e">> @@
    "Roe" :> <<"R", "o", "e">> @@
    "1" :> <<"1">> @@
    "2" :> <<"2">> @@
    "a" :> <<"a">> @@
    "a_a" :> <<"a", "_", "a">>

Chars(text) == Spelling[text]

\* text.startswith(prefix), both as characters
StartsWith(text, prefix) ==
    /\ Len(prefix) <= Len(text)
    /\ SubSeq(text, 1, Len(prefix)) = prefix

RECURSIVE Split(_, _)
\* text.split(sep)
Split(text, sep) ==
    IF \E i \in DOMAIN text : text[i] = sep
    THEN LET i == CHOOSE j \in DOMAIN text :
                      text[j] = sep /\ \A k \in 1..(j - 1) : text[k] # sep
         IN  <<SubSeq(text, 1, i - 1)>> \o Split(SubSeq(text, i + 1, Len(text)), sep)
    ELSE <<text>>

\* counts[col] += n on a defaultdict(int), kept as its items in insertion order
Increment(counts, col, n) ==
    IF n = 0 THEN counts
    ELSE IF \E k \in DOMAIN counts : counts[k].key = col
    THEN [k \in DOMAIN counts |->
            IF counts[k].key = col THEN [key |-> col, count |-> counts[k].count + n]
            ELSE counts[k]]
    ELSE Append(counts, [key |-> col, count |-> n])

\* the same loop over all of name_parts, the first name part included
LastNameHitsAllParts(name_parts, elem) ==
    Cardinality({p \in 1..Len(name_parts) : StartsWith(elem, name_parts[p])})

\* the loop of util.py:88-93: how often elem starts with one of name_parts[1:]
LastNameHits(name_parts, elem) ==
    Cardinality({p \in 2..Len(name_parts) : StartsWith(elem, name_parts[p])})

RECURSIVE CountNames(_, _, _, _, _, _)
\* the loops of util.py:73-93 from the t-th (full name, column, value) triple on
CountNames(full_names, columns, df, t, first_name_counts, last_name_counts) ==
    IF t > Len(full_names) * Len(columns) * Len(df)
    THEN [ok |-> TRUE, first_name_counts |-> first_name_counts,
          last_name_counts |-> last_name_counts]
    ELSE LET col == columns[(((t - 1) \div Len(df)) % Len(columns)) + 1]
             full_name == Chars(full_names[((t - 1) \div (Len(df) * Len(columns))) + 1])
             elem == Chars(df[((t - 1) % Len(df)) + 1][col])
             name_parts == Split(full_name, " ")
         IN  IF StartsWith(full_name, elem)
             THEN CountNames(full_names, columns, df, t + 1,
                             Increment(first_name_counts, col, 1), last_name_counts)
             ELSE IF Len(name_parts) < 2
             THEN [ok |-> FALSE, error |-> [type |-> "AssertionError", what |-> "util.py:86"]]
             ELSE CountNames(full_names, columns, df, t + 1, first_name_counts,
                             Increment(last_name_counts, col, LastNameHits(name_parts, elem)))

\* max(counts.items(), key=lambda key_val: key_val[1])[0]: the first key of the
\* highest count
MaxKey(counts) ==
    counts[CHOOSE k \in DOMAIN counts :
              /\ \A j \in DOMAIN counts : counts[j].count <= counts[k].count
              /\ \A j \in 1..(k - 1) : counts[j].count < counts[k].count].key

MatchFullNames(full_names, columns, df) ==
    LET counted == CountNames(full_names, columns, df, 1, <<>>, <<>>)
    IN  IF ~counted.ok THEN counted
        ELSE IF counted.first_name_counts = <<>> \/ counted.last_name_counts = <<>>
        THEN \* max() of no items
             [ok |-> FALSE, error |-> [type |-> "ValueError", what |-> "max() arg is an empty sequence"]]
        ELSE IF MaxKey(counted.first_name_counts) = MaxKey(counted.last_name_counts)
        THEN [ok |-> FALSE, error |-> [type |-> "AssertionError", what |-> "util.py:98"]]
        ELSE [ok |-> TRUE, first_name_col |-> MaxKey(counted.first_name_counts),
              last_name_col |-> MaxKey(counted.last_name_counts)]

\* split.py:154-159: the name columns, from the command line or from match_full_names
ResolveNameColumns ==
    /\ pc = "join"
    /\ IF args.sorting_keys = <<>>
       THEN /\ pc' = "merge"
            /\ name_cols' = name_cols
            /\ error' = error
       ELSE IF args.info_file_first_name_key # ""
       THEN /\ pc' = "merge"
            /\ name_cols' = <<args.info_file_first_name_key, args.info_file_last_name_key>>
            /\ error' = error
       ELSE IF submissions_df = <<>>
       THEN \* a table of no submissions has no column of full names
            /\ pc' = "failed"
            /\ name_cols' = name_cols
            /\ error' = [type |-> "KeyError", what |-> FULL_NAME_COL]
       ELSE LET r == MatchFullNames([i \in DOMAIN submissions_df |->
                                        submissions_df[i][FULL_NAME_COL]],
                                    info_columns, info_df)
            IN  IF r.ok
                THEN /\ pc' = "merge"
                     /\ name_cols' = <<r.first_name_col, r.last_name_col>>
                     /\ error' = error
                ELSE /\ pc' = "failed"
                     /\ name_cols' = name_cols
                     /\ error' = r.error
    /\ UNCHANGED <<tutors_list, exercise_num, tutors_df, listing, submissions_df, chunks,
                   args, info_df, chunk_index, archives, overview, info_columns>>

(***************************************************************************)
(* match_full_names alone: the run at split.py:154 with sorting keys and   *)
(* no name keys, over a few full names and a small info file.              *)
(***************************************************************************)
FullNames == {"Jane Doe", "John Roe", "Jo Roe", "Cher"}

NameTableHeader == <<"first", "last", "id">>

\* the two rows of a file of Jane Doe and John Roe, and rows with the names in the
\* wrong columns or with another person's name
NameTableRows ==
    {[first |-> "Jane", last |-> "Doe", id |-> "1"],
     [first |-> "John", last |-> "Roe", id |-> "2"],
     [first |-> "Roe", last |-> "John", id |-> "2"],
     [first |-> "John", last |-> "Doe", id |-> "1"],
     [first |-> "Roe", last |-> "Doe", id |-> "1"],
     [first |-> "Jane", last |-> "John", id |-> "2"]}

\* the record of a submission of that full name (split.py:149-153)
SubmissionOf(full_name) ==
    [full_name |-> full_name, moodle_id |-> "1234567",
     submission_file |-> full_name \o "_1234567_f"]

InitNames ==
    /\ pc = "join"
    /\ args = [PlainArgs EXCEPT !.info_file = TRUE, !.sorting_keys = <<"id">>,
                                !.info_file_first_name_key = "",
                                !.info_file_last_name_key = ""]
    /\ \E full_names \in SeqsOf(FullNames, 1, MaxNames) :
            submissions_df = [i \in DOMAIN full_names |-> SubmissionOf(full_names[i])]
    /\ info_df \in SeqsOf(NameTableRows, 0, MaxNameRows)
    /\ info_columns = NameTableHeader
    /\ name_cols = <<>>
    /\ tutors_list = <<>>
    /\ exercise_num = 0
    /\ tutors_df = <<>>
    /\ listing = <<>>
    /\ chunks = <<>>
    /\ chunk_index = 0
    /\ archives = <<>>
    /\ overview = <<>>
    /\ error = NoError

NextNames == ResolveNameColumns

SpecNames == InitNames /\ [][NextNames]_vars

(***************************************************************************)
(* The join with the info file and the sort (split.py:160-166).            *)
(***************************************************************************)
\* every string the runs of the model sort by, in Python's string order
StringOrder ==
    <<"A_1234567_x_7654321", "Jane Doe_1234567_f", "Jane Doe_7654321_f",
      "John Roe_7654321_f", "_1234567", "a", "a_a", "notes">>

Rank(text) == CHOOSE i \in DOMAIN StringOrder : StringOrder[i] = text

RECURSIVE LexLeq(_, _)
\* a <= b for two tuples of ranks of one length
LexLeq(a, b) ==
    IF a = <<>> THEN TRUE
    ELSE IF Head(a) # Head(b) THEN Head(a) < Head(b)
    ELSE LexLeq(Tail(a), Tail(b))

KeyRanks(row, keys) == [k \in DOMAIN keys |-> Rank(row[keys[k]])]

\* df.sort_values(by=keys): the rows in ascending order of the keys; the default sort
\* is not stable, so rows with equal keys come out in any order
SortValues(df, keys) ==
    {[i \in DOMAIN df |-> df[p[i]]] :
        p \in {q \in [DOMAIN df -> DOMAIN df] :
                  /\ \A i, j \in DOMAIN df : i # j => q[i] # q[j]
                  /\ \A i, j \in DOMAIN df :
                        i < j => LexLeq(KeyRanks(df[q[i]], keys), KeyRanks(df[q[j]], keys))}}

\* info_df[FULL_NAME_COL] = info_df[first_name_col] + " " + info_df[last_name_col]
WithFullName(df, first_name_col, last_name_col) ==
    [i \in DOMAIN df |->
        [c \in (DOMAIN df[i]) \cup {FULL_NAME_COL} |->
            IF c = FULL_NAME_COL
            THEN df[i][first_name_col] \o " " \o df[i][last_name_col]
            ELSE df[i][c]]]

RECURSIVE MergeInner(_, _)
\* pd.merge(left, right, on=FULL_NAME_COL, how="inner"): one row for every pair of a
\* left row and a right row with the same full name, in the order of the left rows
MergeInner(left, right) ==
    IF left = <<>> THEN <<>>
    ELSE LET same == SelectSeq(right, LAMBDA r : r[FULL_NAME_COL] = Head(left)[FULL_NAME_COL])
         IN  [j \in DOMAIN same |-> same[j] @@ Head(left)] \o MergeInner(Tail(left), right)

\* split.py:160-166
JoinOrSort ==
    /\ pc = "merge"
    /\ IF args.sorting_keys # <<>>
       THEN /\ info_df' = WithFullName(info_df, name_cols[1], name_cols[2])
            /\ info_columns' = Append(info_columns, FULL_NAME_COL)
            /\ IF submissions_df = <<>>
               THEN \* a table of no submissions has no column to merge on
                    /\ pc' = "failed"
                    /\ error' = [type |-> "KeyError", what |-> FULL_NAME_COL]
                    /\ submissions_df' = submissions_df
               ELSE LET merged_df == MergeInner(submissions_df, info_df')
                    IN  IF Len(submissions_df) # Len(merged_df)
                        THEN /\ pc' = "failed"
                             /\ error' = [type |-> "AssertionError", what |-> "split.py:162"]
                             /\ submissions_df' = submissions_df
                        ELSE /\ pc' = "partition"
                             /\ error' = error
                             /\ submissions_df' \in SortValues(merged_df, args.sorting_keys)
       ELSE /\ info_df' = info_df
            /\ info_columns' = info_columns
            /\ IF submissions_df = <<>>
               THEN \* a table of no submissions has no column to sort by
                    /\ pc' = "failed"
                    /\ error' = [type |-> "KeyError", what |-> SUBMISSION_COL]
                    /\ submissions_df' = submissions_df
               ELSE /\ pc' = "partition"
                    /\ error' = error
                    /\ submissions_df' \in SortValues(submissions_df, <<SUBMISSION_COL>>)
    /\ UNCHANGED <<tutors_list, exercise_num, tutors_df, listing, chunks, args,
                   chunk_index, archives, overview, name_cols>>

(***************************************************************************)
(* weighted_chunks (util.py:102-122).                                      *)
(*                                                                         *)
(* Weights are naturals here; util.py:104 divides each by their sum in     *)
(* IEEE 754 double arithmetic and util.py:105 multiplies the quotient by   *)
(* len(df) and floors the product.  FloorShare computes that floor with    *)
(* both roundings (to nearest, ties to even) done as the hardware does     *)
(* them, in integer arithmetic:                                            *)
(*   q = fl(w / total) = m * 2^-e with 2^52 <= m < 2^53, e = 52 + j, where *)
(*   2^-j <= w / total < 2^-(j-1); m * total = w * 2^e + d, and d = -r     *)
(*   when the division rounds down, r = (w * 2^e) mod total.               *)
(*   n * q = n*w/total + n*d / (total * 2^e).  When total does not divide  *)
(*   n*w the second term is far too small to move the floor.  When it does *)
(*   (n*w/total = exact), n * q = (exact * 2^e - t) * 2^-e with            *)
(*   t = n*r/total, and the product rounds to a double below exact exactly *)
(*   when t is more than half the spacing of the doubles just below exact. *)
(***************************************************************************)
RECURSIVE Pow2Mod(_, _)
\* 2^e mod m
Pow2Mod(e, m) == IF e = 0 THEN 1 % m ELSE (2 * Pow2Mod(e - 1, m)) % m

RECURSIVE BitLength(_)
\* the number of binary digits of x
BitLength(x) == IF x <= 0 THEN 0 ELSE 1 + BitLength(x \div 2)

RECURSIVE BinadeFrom(_, _, _)
\* the least j >= k with w * 2^j >= total
BinadeFrom(w, total, k) == IF w * 2^k >= total THEN k ELSE BinadeFrom(w, total, k + 1)

\* n * w / total in exact arithmetic, floored
ExactFloorShare(n, w, total) == (n * w) \div total

\* math.floor(len(df) * w) for w = weight / sum(weights), both in doubles
FloorShare(n, w, total) ==
    IF w = 0 THEN 0
    ELSE IF w = total THEN n
    ELSE LET j == BinadeFrom(w, total, 1)
             r == (w * Pow2Mod(MantissaBits - 1 + j, total)) % total
             exact == (n * w) \div total
             t == (n * r) \div total
             spacing == 2^(j - 1 + BitLength(exact - 1))
         IN  IF /\ (n * w) % total = 0
                /\ r # 0
                /\ 2 * r < total
                /\ 2 * t > spacing
             THEN exact - 1
             ELSE exact

RECURSIVE Distribute(_, _, _)
\* the while loop of util.py:109-113; idx counts from 1 here
Distribute(chunk_sizes, idx, remainder_size) ==
    IF remainder_size > 0
    THEN Distribute([chunk_sizes EXCEPT ![idx] = @ + 1],
                    (idx % Len(chunk_sizes)) + 1, remainder_size - 1)
    ELSE chunk_sizes

\* util.py:104-113: the chunk sizes for n records
ChunkSizes(n, weights) ==
    LET total == SumSeq(weights)
        floors == [i \in DOMAIN weights |-> FloorShare(n, weights[i], total)]
    IN  Distribute(floors, 1, n - SumSeq(floors))

CollectOverlapping(df, chunk_sizes, k, idx) ==
    [c \in DOMAIN chunk_sizes |-> SubSeq(df, 1, chunk_sizes[c])]

RECURSIVE Collect(_, _, _, _)
\* the for loop of util.py:116-120: chunk k is df.iloc[idx:idx + chunk_size]
Collect(df, chunk_sizes, k, idx) ==
    IF k > Len(chunk_sizes) THEN <<>>
    ELSE <<SubSeq(df, idx + 1, idx + chunk_sizes[k])>>
             \o Collect(df, chunk_sizes, k + 1, idx + chunk_sizes[k])

WeightedChunks(df, weights) ==
    IF SumSeq(weights) = 0
    THEN \* the weights are all nan and math.floor(nan) raises
         [ok |-> FALSE, error |-> [type |-> "ValueError", what |-> "nan"]]
    ELSE LET chunk_sizes == ChunkSizes(Len(df), weights)
             result == Collect(df, chunk_sizes, 1, 0)
         IN  IF SumSeq(chunk_sizes) # Len(df)
             THEN [ok |-> FALSE, error |-> [type |-> "AssertionError", what |-> "util.py:114"]]
             ELSE IF SumSeq([c \in DOMAIN result |-> Len(result[c])]) # Len(df)
             THEN [ok |-> FALSE, error |-> [type |-> "AssertionError", what |-> "util.py:121"]]
             ELSE [ok |-> TRUE, chunks |-> result]

\* split.py:180: weighted_chunks(submissions_df, tutors_df["weight"])
Partition ==
    /\ pc = "partition"
    /\ LET r == WeightedChunks(submissions_df, [i \in DOMAIN tutors_df |-> tutors_df[i].weight])
       IN  IF r.ok
           THEN /\ chunks' = r.chunks
                /\ pc' = "export"
                /\ error' = error
           ELSE /\ chunks' = chunks
                /\ pc' = "failed"
                /\ error' = r.error
    /\ UNCHANGED <<args, info_df, chunk_index, archives, overview, tutors_list, exercise_num, tutors_df, listing, submissions_df,
                   info_columns, name_cols>>

(***************************************************************************)
(* The partitioning alone: the run at split.py:180, with the sorted        *)
(* records numbered by their position and a roster of any weights.         *)
(***************************************************************************)
\* zero, small, the least weights whose share the double rounding gets wrong (15/22),
\* and the least whose shares it gets wrong all at once (1/49, 16/49, 32/49)
WeightValues == {0, 1, 2, 7, 15, 16, 32}

InitChunks ==
    /\ pc = "partition"
    /\ \E n \in 0..MaxSubmissions : submissions_df = [i \in 1..n |-> i]
    /\ \E weights \in SeqsOf(WeightValues, 1, MaxTutors) :
            tutors_df = [i \in DOMAIN weights |->
                            [name |-> "T" \o ToString(i), weight |-> weights[i]]]
    /\ tutors_list = <<>>
    /\ exercise_num = 0
    /\ listing = <<>>
    /\ chunks = <<>>
    /\ error = NoError
    /\ NothingElse

NextChunks == Partition

SpecChunks == InitChunks /\ [][NextChunks]_vars

(***************************************************************************)
(* get_submissions_df (util.py:54-62) with the three patterns of           *)
(* split.py:149-153.  A submission name is a sequence of characters, none  *)
(* of them a newline.                                                      *)
(***************************************************************************)
\* the keys of regex_cols, in the order of the dict
RegexCols == <<FULL_NAME_COL, MOODLE_ID_COL, SUBMISSION_COL>>

Digits == {"0", "1", "2", "3", "4", "5", "6", "7", "8", "9"}

\* \d{count} matches at position i of s
DigitsAt(s, i, count) ==
    /\ i >= 1
    /\ i + count - 1 <= Len(s)
    /\ \A k \in i..(i + count - 1) : s[k] \in Digits

NoMatch == [found |-> FALSE]

\* re.search(r".+(?=_\d{7})", s): the search starts at the first character, and the
\* greedy .+ gives back characters until "_" and seven digits follow it
SearchFullName(s) ==
    LET ends == {e \in 1..Len(s) :
                    /\ e + 1 <= Len(s)
                    /\ s[e + 1] = "_"
                    /\ DigitsAt(s, e + 2, MoodleIdDigits)}
    IN  IF ends = {} THEN NoMatch
        ELSE LET last == CHOOSE e \in ends : \A f \in ends : f <= e
             IN  [found |-> TRUE, text |-> Str(SubSeq(s, 1, last))]

\* re.search(r"\d{7}", s): the leftmost seven digits in a row
SearchMoodleId(s) ==
    LET starts == {i \in 1..Len(s) : DigitsAt(s, i, MoodleIdDigits)}
    IN  IF starts = {} THEN NoMatch
        ELSE LET first == CHOOSE i \in starts : \A j \in starts : i <= j
             IN  [found |-> TRUE, text |-> Str(SubSeq(s, first, first + MoodleIdDigits - 1))]

\* re.search(r".+", s): the whole name, unless it is empty
SearchSubmission(s) ==
    IF s = <<>> THEN NoMatch ELSE [found |-> TRUE, text |-> Str(s)]

\* re.search(regex_cols[name], s)
Search(name, s) ==
    IF name = FULL_NAME_COL THEN SearchFullName(s)
    ELSE IF name = MOODLE_ID_COL THEN SearchMoodleId(s)
    ELSE SearchSubmission(s)

GetSubmissionsDfSkipping(submissions) ==
    LET kept == SelectSeq(submissions,
                    LAMBDA s : \A c \in DOMAIN RegexCols : Search(RegexCols[c], s).found)
    IN  [ok |-> TRUE,
         rows |-> [i \in DOMAIN kept |->
                      [name \in {RegexCols[c] : c \in DOMAIN RegexCols} |->
                          Search(name, kept[i]).text]]]

\* the two loops of util.py:56-61: the first pattern without a match raises, and
\* otherwise every submission gives one row
GetSubmissionsDf(submissions) ==
    LET missing == {<<i, c>> \in (DOMAIN submissions) \X (DOMAIN RegexCols) :
                        ~Search(RegexCols[c], submissions[i]).found}
    IN  IF missing = {}
        THEN [ok |-> TRUE,
              rows |-> [i \in DOMAIN submissions |->
                           [name \in {RegexCols[c] : c \in DOMAIN RegexCols} |->
                               Search(name, submissions[i]).text]]]
        ELSE LET first == CHOOSE m \in missing : \A o \in missing :
                              m[1] < o[1] \/ (m[1] = o[1] /\ m[2] <= o[2])
             IN  [ok |-> FALSE,
                  error |-> [type |-> "ValueError",
                             submission |-> Str(submissions[first[1]]),
                             column |-> RegexCols[first[2]]]]

\* the same step of a script that creates the overview file, header only, before it
\* reads the listing
ExtractSubmissionsAfterOverviewHeader ==
    /\ pc = "extract"
    /\ overview' = IF args.create_overview_file
                   THEN <<[kind |-> "header",
                           columns |-> {FULL_NAME_COL, MOODLE_ID_COL, SUBMISSION_COL,
                                        "tutor_name", "tutor_weight"}]>>
                   ELSE overview
    /\ LET r == GetSubmissionsDf(listing)
       IN  IF r.ok
           THEN /\ submissions_df' = r.rows
                /\ pc' = "join"
                /\ error' = error
           ELSE /\ submissions_df' = submissions_df
                /\ pc' = "failed"
                /\ error' = r.error
    /\ UNCHANGED <<args, info_df, chunk_index, archives, tutors_list, exercise_num,
                   tutors_df, listing, chunks, info_columns, name_cols>>

\* split.py:149-153
ExtractSubmissions ==
    /\ pc = "extract"
    /\ LET r == GetSubmissionsDf(listing)
       IN  IF r.ok
           THEN /\ submissions_df' = r.rows
                /\ pc' = "join"
                /\ error' = error
           ELSE /\ submissions_df' = submissions_df
                /\ pc' = "failed"
                /\ error' = r.error
    /\ UNCHANGED <<args, info_df, chunk_index, archives, overview, tutors_list, exercise_num, tutors_df, listing, chunks,
                   info_columns, name_cols>>

(***************************************************************************)
(* The extraction alone: the run at split.py:149 with a roster of one      *)
(* tutor and any listing of the unzipped directory.                        *)
(***************************************************************************)
\* Jane Doe_1234567_f
JaneDir ==
    <<"J", "a", "n", "e", " ", "D", "o", "e", "_", "1", "2", "3", "4", "5", "6", "7", "_", "f">>
\* John Roe_7654321_f
JohnDir ==
    <<"J", "o", "h", "n", " ", "R", "o", "e", "_", "7", "6", "5", "4", "3", "2", "1", "_", "f">>
\* A_1234567_x_7654321
TwoIdsDir ==
    <<"A", "_", "1", "2", "3", "4", "5", "6", "7", "_", "x", "_", "7", "6", "5", "4", "3", "2", "1">>
\* notes
NotesDir ==
    <<"n", "o", "t", "e", "s">>
\* _1234567
BareIdDir ==
    <<"_", "1", "2", "3", "4", "5", "6", "7">>

SubmissionNames == {JaneDir, JohnDir, TwoIdsDir, NotesDir, BareIdDir}

InitExtract ==
    /\ pc = "extract"
    /\ listing \in DistinctSeqsOf(SubmissionNames, 0, MaxListing)
    /\ tutors_list = <<<<"Alex">>>>
    /\ exercise_num = 0
    /\ tutors_df = <<[name |-> "Alex", weight |-> 1]>>
    /\ submissions_df = <<>>
    /\ chunks = <<>>
    /\ error = NoError
    /\ NothingElse

NextExtract == ExtractSubmissions

SpecExtract == InitExtract /\ [][NextExtract]_vars

(***************************************************************************)
(* The export loop (split.py:180-205), one action for every chunk, and the *)
(* end of the run (split.py:207-208).  Every submission directory holds    *)
(* one file, SubmittedFile.                                                *)
(***************************************************************************)
SubmittedFile == "f.txt"

\* f"{args.submissions_file[:-4]}_{tutors_df['name'][i]}.zip"
ChunkFile(name) == "submissions_" \o name \o ".zip"

RECURSIVE JoinWith(_, _)
\* sep.join(texts)
JoinWith(sep, texts) ==
    IF texts = <<>> THEN ""
    ELSE IF Len(texts) = 1 THEN texts[1]
    ELSE texts[1] \o sep \o JoinWith(sep, Tail(texts))

\* args.submission_renaming_separator.join(entry[k] for k in args.submission_renaming_keys)
RenamedName(entry, a) ==
    JoinWith(a.submission_renaming_separator, KeyValues(entry, a.submission_renaming_keys))

\* entry[k] raises KeyError for a key the entry does not have
LacksKey(entry, a) ==
    \E k \in DOMAIN a.submission_renaming_keys : a.submission_renaming_keys[k] \notin DOMAIN entry

\* the arcname of split.py:198-202
ArcName(entry, a) ==
    IF a.submission_renaming_keys # <<>>
    THEN RenamedName(entry, a) \o "/" \o SubmittedFile
    ELSE entry[SUBMISSION_COL] \o "/" \o SubmittedFile

\* the rows chunk_df.to_csv adds to the overview: the chunk's rows with the tutor's
\* name and weight
OverviewRows(chunk_df, tutor) ==
    [r \in DOMAIN chunk_df |->
        [kind |-> "row",
         values |-> chunk_df[r] @@ [tutor_name |-> tutor.name, tutor_weight |-> tutor.weight]]]

OverviewHeader(df) ==
    [kind |-> "header", columns |-> (DOMAIN df[1]) \cup {"tutor_name", "tutor_weight"}]

\* ZipFile(chunk_file, "w") replaces a file of that name
WriteFile(files, name, content) ==
    [n \in (DOMAIN files) \cup {name} |-> IF n = name THEN content ELSE files[n]]

WriteChunk ==
    /\ pc = "export"
    /\ chunk_index < Len(chunks)
    /\ LET i == chunk_index + 1
           chunk_df == chunks[i]
           bad == {r \in DOMAIN chunk_df : LacksKey(chunk_df[r], args)}
           written == IF bad = {} THEN Len(chunk_df)
                      ELSE (CHOOSE r \in bad : \A o \in bad : r <= o) - 1
       IN  /\ overview' =
                 IF ~args.create_overview_file THEN overview
                 ELSE IF i = 1
                 THEN <<OverviewHeader(submissions_df)>> \o OverviewRows(chunk_df, tutors_df[i])
                 ELSE overview \o OverviewRows(chunk_df, tutors_df[i])
           /\ archives' = WriteFile(archives, ChunkFile(tutors_df[i].name),
                                    [r \in 1..written |-> ArcName(chunk_df[r], args)])
           /\ IF bad = {}
              THEN /\ pc' = pc
                   /\ error' = error
              ELSE /\ pc' = "failed"
                   /\ error' = [type |-> "KeyError", what |-> "renaming key"]
    /\ chunk_index' = chunk_index + 1
    /\ UNCHANGED <<tutors_list, exercise_num, tutors_df, listing, submissions_df, chunks,
                   args, info_df,
                   info_columns, name_cols>>

\* split.py:207-208
DeleteUnzipped ==
    /\ pc = "export"
    /\ chunk_index = Len(chunks)
    /\ pc' = "done"
    /\ UNCHANGED <<tutors_list, exercise_num, tutors_df, listing, submissions_df, chunks,
                   args, info_df, chunk_index, archives, overview, error,
                   info_columns, name_cols>>

(***************************************************************************)
(* The whole run, on small inputs.                                         *)
(***************************************************************************)
\* Jane Doe_7654321_f
JaneAgainDir ==
    <<"J", "a", "n", "e", " ", "D", "o", "e", "_", "7", "6", "5", "4", "3", "2", "1", "_", "f">>

RunSubmissionNames == {JaneDir, JaneAgainDir, JohnDir, NotesDir}

RunTutorLists ==
    {<<<<"Alex">>>>, <<<<"Alex">>, <<"Sam">>>>, <<<<"Alex", ",", "2">>, <<"Alex", ",", "1">>>>}

InfoRows ==
    {[first |-> "Jane", last |-> "Doe", key1 |-> "a_a", key2 |-> "a"],
     [first |-> "John", last |-> "Roe", key1 |-> "a", key2 |-> "a_a"],
     [first |-> "Jane", last |-> "Doe", key1 |-> "a", key2 |-> "a"]}

\* the header of the info file of a run, in its order
InfoHeader == <<"first", "last", "key1", "key2">>

\* the name keys are both given or, on some runs with sorting keys, both left out
RunArgs ==
    {a \in [info_file : BOOLEAN,
            sorting_keys : {<<>>, <<"key1">>},
            submission_renaming_keys : {<<>>, <<"key1", "key2">>},
            submission_renaming_separator : {"_"},
            info_file_first_name_key : {"first", ""},
            info_file_last_name_key : {"last", ""},
            create_overview_file : BOOLEAN] :
        /\ (a.info_file_first_name_key = "") = (a.info_file_last_name_key = "")
        /\ a.info_file_first_name_key = "" => a.sorting_keys # <<>> /\ a.info_file}

InitRun ==
    /\ pc = "args"
    /\ args \in RunArgs
    /\ info_df \in IF args.info_file THEN SeqsOf(InfoRows, 0, MaxInfoRows) ELSE {<<>>}
    /\ info_columns = IF args.info_file THEN InfoHeader ELSE <<>>
    /\ name_cols = <<>>
    /\ tutors_list \in RunTutorLists
    /\ exercise_num \in 0..1
    /\ listing \in DistinctSeqsOf(RunSubmissionNames, 0, MaxRunListing)
    /\ tutors_df = <<>>
    /\ submissions_df = <<>>
    /\ chunks = <<>>
    /\ chunk_index = 0
    /\ archives = <<>>
    /\ overview = <<>>
    /\ error = NoError

NextRun ==
    \/ CheckArgs
    \/ ReadTutors
    \/ AssignDefaultWeights
    \/ RollRoster
    \/ DedupRoster
    \/ ExtractSubmissions
    \/ ResolveNameColumns
    \/ JoinOrSort
    \/ Partition
    \/ WriteChunk
    \/ DeleteUnzipped

SpecRun == InitRun /\ [][NextRun]_vars

(***************************************************************************)
(* Properties of the partitioning.                                         *)
(***************************************************************************)
Weights == [i \in DOMAIN tutors_df |-> tutors_df[i].weight]
ChunkLengths == [c \in DOMAIN chunks |-> Len(chunks[c])]

RECURSIVE Flatten(_)
Flatten(ss) == IF ss = <<>> THEN <<>> ELSE Head(ss) \o Flatten(Tail(ss))

\* the sizes the specification describes: the exact floors of the ideal shares, and
\* the remainder handed out one unit at a time from index 0 on, round robin
IdealSizes(n, weights) ==
    LET K == Len(weights)
        floors == [i \in 1..K |-> (n * weights[i]) \div SumSeq(weights)]
        remainder == n - SumSeq(floors)
    IN  [i \in 1..K |->
            floors[i] + Cardinality({u \in 0..(remainder - 1) : u % K = i - 1})]

\* C1: with all weights positive, weighted_chunks returns one slice per tutor, the
\* sizes sum to the number of records, none is negative, and the slices concatenated
\* in tutor order are the records in their original order.
C1_ChunksPartitionTheRecords ==
    (pc \in {"export", "failed"} /\ \A i \in DOMAIN Weights : Weights[i] > 0) =>
        /\ pc = "export"
        /\ Len(chunks) = Len(tutors_df)
        /\ SumSeq(ChunkLengths) = Len(submissions_df)
        /\ \A c \in DOMAIN chunks : Len(chunks[c]) >= 0
        /\ Flatten(chunks) = submissions_df

C1_Witness ==
    /\ pc = "export"
    /\ Weights = <<7, 15>>
    /\ Len(submissions_df) = 22
    /\ ChunkLengths = <<8, 14>>
    /\ chunks[2][1] = 9

\* C2: the slice sizes are the floored ideal shares floor(N * weight_i / sum(weights))
\* plus the remainder handed out round robin from index 0; 10 records over weights
\* 1,1,1 give 4,3,3 and 7 records over weights 0.5,0.25,0.25 (2,1,1 in quarters, the
\* same quotients) give 4,2,1.
C2_SizesAreFloorsPlusRoundRobin ==
    pc = "export" =>
        /\ ChunkLengths = IdealSizes(Len(submissions_df), Weights)
        /\ (Len(submissions_df) = 10 /\ Weights = <<1, 1, 1>> => ChunkLengths = <<4, 3, 3>>)
        /\ (Len(submissions_df) = 7 /\ Weights = <<2, 1, 1>> => ChunkLengths = <<4, 2, 1>>)

\* C3: with non-negative weights of positive sum, weighted_chunks does not fail and
\* every tutor of weight zero gets an empty slice, whatever its index; weights 1,0,1
\* over 4 records give 2,0,2, and no records give empty slices only.
C3_ZeroWeightGetsNothing ==
    (pc \in {"export", "failed"} /\ SumSeq(Weights) > 0) =>
        /\ pc = "export"
        /\ \A i \in DOMAIN Weights : Weights[i] = 0 => chunks[i] = <<>>
        /\ (Len(submissions_df) = 4 /\ Weights = <<1, 0, 1>> => ChunkLengths = <<2, 0, 2>>)
        /\ (submissions_df = <<>> => \A c \in DOMAIN chunks : chunks[c] = <<>>)

\* the floored shares as util.py:105 computes them, and what they leave over
FlooredShares ==
    [i \in DOMAIN Weights |-> FloorShare(Len(submissions_df), Weights[i], SumSeq(Weights))]

RemainderSize == Len(submissions_df) - SumSeq(FlooredShares)

\* C14: for non-negative weights of positive sum, what the floored shares leave over
\* is at least 0 and less than the number of tutors, so the round robin hands out
\* less than one unit per tutor and never wraps: every slice has its floored share,
\* plus one exactly for the tutors at the indices below the remainder.
C14_RemainderBelowTutorCount ==
    (pc = "export" /\ SumSeq(Weights) > 0) =>
        /\ RemainderSize >= 0
        /\ RemainderSize < Len(tutors_df)
        /\ \A i \in DOMAIN tutors_df :
              ChunkLengths[i] = FlooredShares[i] + (IF i <= RemainderSize THEN 1 ELSE 0)

(***************************************************************************)
(* Properties of the roster part.                                          *)
(***************************************************************************)
RosterNames == [i \in DOMAIN tutors_df |-> tutors_df[i].name]
AllEntriesHaveComma == \A i \in DOMAIN tutors_list : HasComma(tutors_list[i])
NoEntryHasComma == \A i \in DOMAIN tutors_list : ~HasComma(tutors_list[i])
AllWeightsParse == \A i \in DOMAIN tutors_list : FloatOk(SplitWeight(tutors_list[i]))

\* C4: rolling by exercise_num moves the tutor at un-rotated index i to index
\* (i + exercise_num) mod K, name and weight together, so every tutor keeps its own
\* weight; a shift of 0 changes nothing; three names rolled by 1 put the last one first.
C4_RollMovesEveryTutor ==
    [][pc = "roll" =>
        LET K == Len(tutors_df)
        IN  /\ Len(tutors_df') = K
            /\ \A i \in 1..K : tutors_df'[((i - 1 + exercise_num) % K) + 1] = tutors_df[i]
            /\ (exercise_num = 0 => tutors_df' = tutors_df)
            /\ (exercise_num = 1 /\ RosterNames = <<"Alex", "Sam", "Alex (1)">>
                    => RosterNames' = <<"Alex (1)", "Alex", "Sam">>)]_vars

C4_Witness ==
    /\ pc = "dedup"
    /\ exercise_num = 1
    /\ tutors_df = <<[name |-> "Alex (1)", weight |-> 2], [name |-> "Alex", weight |-> 1],
                     [name |-> "Sam", weight |-> 2]>>

\* C5: handle_duplicate_names rewrites every name that occurs more than once to
\* "<name> (<k>)", k the 1-based count of that name's occurrences up to and including
\* the row, leaves every other name alone, and keeps the roster's order, length and
\* weights; Alex, Sam, Alex become Alex (1), Sam, Alex (2).
C5_DuplicatesAreNumbered ==
    [][pc = "dedup" =>
        LET names == RosterNames
            occurrences(i) == Cardinality({j \in DOMAIN names : names[j] = names[i]})
            upTo(i) == Cardinality({j \in 1..i : names[j] = names[i]})
        IN  /\ Len(tutors_df') = Len(tutors_df)
            /\ \A i \in DOMAIN tutors_df :
                /\ tutors_df'[i].weight = tutors_df[i].weight
                /\ tutors_df'[i].name =
                      IF occurrences(i) > 1
                      THEN names[i] \o " (" \o ToString(upTo(i)) \o ")"
                      ELSE names[i]
            /\ (names = <<"Alex", "Sam", "Alex">>
                    => RosterNames' = <<"Alex (1)", "Sam", "Alex (2)">>)]_vars

C5_Witness ==
    /\ pc = "extract"
    /\ RosterNames = <<"Alex (1)", "Sam", "Alex (2)">>

\* C6: once handle_duplicate_names has run, the names of the roster are pairwise distinct.
C6_NamesDistinctAfterDedup ==
    pc = "extract" =>
        \A i, j \in DOMAIN tutors_df : i # j => tutors_df[i].name # tutors_df[j].name

\* C10: a tutor list is accepted only when ',' is in all entries or in none; with ','
\* in all of them (and weights float() reads) every entry yields its name and its
\* parsed weight; with ',' in none every tutor ends up with weight 1; with ',' in
\* some and not in others the call fails, wherever the odd entry stands.
C10_SeparatorInAllOrNone ==
    (tutors_list # <<>> /\ pc \in {"columns", "roll", "failed"}) =>
        /\ (pc # "failed" => AllEntriesHaveComma \/ NoEntryHasComma)
        /\ (~AllEntriesHaveComma /\ ~NoEntryHasComma
                => pc = "failed" /\ error.type = "ValueError")
        /\ (AllEntriesHaveComma /\ AllWeightsParse =>
                /\ pc # "failed"
                /\ pc = "columns" =>
                      tutors_df = [i \in DOMAIN tutors_list |->
                                      <<SplitName(tutors_list[i]),
                                        FloatValue[SplitWeight(tutors_list[i])]>>])
        /\ (NoEntryHasComma =>
                /\ pc # "failed"
                /\ pc = "columns" =>
                      tutors_df = [i \in DOMAIN tutors_list |-> <<Str(tutors_list[i])>>]
                /\ pc = "roll" =>
                      tutors_df = [i \in DOMAIN tutors_list |->
                                      [name |-> Str(tutors_list[i]), weight |-> 1]])

C10_Witness ==
    /\ pc = "failed"
    /\ Len(tutors_list) = 3
    /\ ~HasComma(tutors_list[1])
    /\ ~HasComma(tutors_list[2])
    /\ HasComma(tutors_list[3])
    /\ error = [type |-> "ValueError", what |-> "unexpected ','", entry |-> 3]

(***************************************************************************)
(* Properties of the extraction.                                           *)
(***************************************************************************)
\* the places <<a, b>> where the pattern of a column matches s[a..b]
MatchesOf(name, s) ==
    IF name = FULL_NAME_COL
    THEN {<<a, b>> \in (1..Len(s)) \X (1..Len(s)) :
             /\ a <= b
             /\ b + MoodleIdDigits + 1 <= Len(s)
             /\ s[b + 1] = "_"
             /\ \A k \in (b + 2)..(b + 1 + MoodleIdDigits) : s[k] \in Digits}
    ELSE IF name = MOODLE_ID_COL
    THEN {<<a, b>> \in (1..Len(s)) \X (1..Len(s)) :
             /\ b = a + MoodleIdDigits - 1
             /\ \A k \in a..b : s[k] \in Digits}
    ELSE {<<a, b>> \in (1..Len(s)) \X (1..Len(s)) : a <= b}

\* the first match: the leftmost start, and the longest match from there (every
\* repetition of the three patterns is greedy)
IsFirstMatch(name, s, text) ==
    \E m \in MatchesOf(name, s) :
        /\ \A o \in MatchesOf(name, s) : m[1] < o[1] \/ (m[1] = o[1] /\ o[2] <= m[2])
        /\ text = Str(SubSeq(s, m[1], m[2]))

Unmatched == {<<i, c>> \in (DOMAIN listing) \X (DOMAIN RegexCols) :
                  MatchesOf(RegexCols[c], listing[i]) = {}}

\* C9: get_submissions_df returns one record per identifier, holding for every field
\* the first match of the field's pattern in the identifier; if a pattern matches
\* nowhere in some identifier it fails with an error that names the identifier and
\* the field, and no table, not even a partial one, is returned.
C9_ExtractionIsAllOrNothing ==
    pc \in {"join", "failed"} =>
        IF Unmatched = {}
        THEN /\ pc = "join"
             /\ Len(submissions_df) = Len(listing)
             /\ \A i \in DOMAIN listing : \A c \in DOMAIN RegexCols :
                    IsFirstMatch(RegexCols[c], listing[i], submissions_df[i][RegexCols[c]])
        ELSE /\ pc = "failed"
             /\ submissions_df = <<>>
             /\ error.type = "ValueError"
             /\ \E m \in Unmatched :
                    /\ error.submission = Str(listing[m[1]])
                    /\ error.column = RegexCols[m[2]]

C9_Witness ==
    /\ pc = "join"
    /\ listing = <<TwoIdsDir, JaneDir>>
    /\ submissions_df[1] = [full_name |-> "A_1234567_x", moodle_id |-> "1234567",
                            submission_file |-> "A_1234567_x_7654321"]
    /\ submissions_df[2] = [full_name |-> "Jane Doe", moodle_id |-> "1234567",
                            submission_file |-> "Jane Doe_1234567_f"]

(***************************************************************************)
(* Properties of the join and of the renaming.                             *)
(***************************************************************************)
\* the rows of the info file that carry the full name of the i-th listed submission
InfoRowsFor(i) ==
    {j \in DOMAIN info_df :
        info_df[j][name_cols[1]] \o " " \o info_df[j][name_cols[2]]
            = SearchFullName(listing[i]).text}

\* C7: with sorting keys, the run gets past the join only if every submission matches
\* exactly one row of the info file; a submission with no row or several fails it.
C7_JoinMatchesExactlyOne ==
    (args.sorting_keys # <<>> /\ pc \in {"partition", "export", "done"}) =>
        \A i \in DOMAIN listing : Cardinality(InfoRowsFor(i)) = 1

OverviewRowsFor(i) ==
    {k \in DOMAIN overview :
        /\ overview[k].kind = "row"
        /\ overview[k].values[SUBMISSION_COL] = Str(listing[i])}

\* what the overview says below its header
OverviewValues == [k \in 1..(Len(overview) - 1) |-> overview[k + 1].values]

\* every record of every slice, in slice order, with the name and weight of the tutor
\* whose index is the slice's
SliceRecordsWithTutor ==
    Flatten([c \in DOMAIN chunks |->
                [r \in DOMAIN chunks[c] |->
                    chunks[c][r] @@ [tutor_name |-> tutors_df[c].name,
                                     tutor_weight |-> tutors_df[c].weight]]])

\* C11: with the overview enabled, a finished run leaves one header line followed by
\* rows only; the rows are the records of the slices in tutor index order, each with
\* the name and weight of its slice's tutor; and every submission has exactly one row.
C11_OverviewOneRowPerSubmission ==
    (args.create_overview_file /\ pc = "done") =>
        /\ overview # <<>>
        /\ overview[1].kind = "header"
        /\ \A k \in 2..Len(overview) : overview[k].kind = "row"
        /\ OverviewValues = SliceRecordsWithTutor
        /\ \A i \in DOMAIN listing : Cardinality(OverviewRowsFor(i)) = 1

\* the run has failed before weighted_chunks returned the slices
FailedBeforeAllocation == pc = "failed" /\ chunks = <<>>

\* C12: a run that fails before the slices are allocated (in the argument checks, the
\* roster, the extraction, the name columns, the join or weighted_chunks itself) has
\* written no tutor archive and no overview at that point, and writes none later.
C12_NoOutputBeforeAllocation ==
    /\ [](FailedBeforeAllocation => archives = <<>> /\ overview = <<>>)
    /\ [][FailedBeforeAllocation => archives' = archives /\ overview' = overview]_vars

C12_Witness ==
    /\ FailedBeforeAllocation
    /\ args.create_overview_file
    /\ name_cols = <<"first", "last">>
    /\ args.info_file_first_name_key = ""
    /\ error = [type |-> "AssertionError", what |-> "split.py:162"]

(***************************************************************************)
(* Properties of match_full_names.                                         *)
(***************************************************************************)
\* match_full_names has been called on the full names of submissions_df
NamesMatched ==
    /\ pc \in {"merge", "failed"}
    /\ args.sorting_keys # <<>>
    /\ args.info_file_first_name_key = ""
    /\ submissions_df # <<>>

FullNameChars(n) == Chars(submissions_df[n][FULL_NAME_COL])

\* the (full name, value) pairs of a column whose full name starts with the value
FirstNamePairs(col) ==
    {nr \in (DOMAIN submissions_df) \X (DOMAIN info_df) :
        StartsWith(FullNameChars(nr[1]), Chars(info_df[nr[2]][col]))}

FirstNameCount(col) == Cardinality(FirstNamePairs(col))

\* for the other pairs of the column, the tokens after the first of the full name
\* that the value starts with
LastNameCount(col) ==
    Cardinality(UNION {
        {<<nr, p>> : p \in {q \in 2..Len(Split(FullNameChars(nr[1]), " ")) :
                              StartsWith(Chars(info_df[nr[2]][col]),
                                         Split(FullNameChars(nr[1]), " ")[q])}} :
        nr \in ((DOMAIN submissions_df) \X (DOMAIN info_df)) \ FirstNamePairs(col)})

ColumnSet == {info_columns[c] : c \in DOMAIN info_columns}

FirstNameWinners ==
    {c \in ColumnSet : FirstNameCount(c) > 0
                       /\ \A d \in ColumnSet : FirstNameCount(d) <= FirstNameCount(c)}

LastNameWinners ==
    {c \in ColumnSet : LastNameCount(c) > 0
                       /\ \A d \in ColumnSet : LastNameCount(d) <= LastNameCount(c)}

\* C13: with a first-name hit of a column for every (full name, value) pair whose
\* full name starts with the value, and for every other pair one last-name hit for
\* each token after the first that the value starts with, match_full_names returns a
\* column of the highest first-name count and a column of the highest last-name
\* count, two different columns; it fails when one column alone has both highest
\* counts, and it fails on util.py:98 only when some column has both.  For Jane Doe
\* and John Roe over first = Jane, John, last = Doe, Roe, id = 1, 2 it returns
\* (first, last).
C13_MatchFullNamesPicksHighestCounts ==
    NamesMatched =>
        /\ pc = "merge" =>
              /\ name_cols[1] \in FirstNameWinners
              /\ name_cols[2] \in LastNameWinners
              /\ name_cols[1] # name_cols[2]
        /\ (\E c \in ColumnSet : FirstNameWinners = {c} /\ LastNameWinners = {c})
              => pc = "failed"
        /\ (pc = "failed" /\ error = [type |-> "AssertionError", what |-> "util.py:98"])
              => FirstNameWinners \cap LastNameWinners # {}
        /\ (/\ submissions_df = <<SubmissionOf("Jane Doe"), SubmissionOf("John Roe")>>
            /\ info_df = <<[first |-> "Jane", last |-> "Doe", id |-> "1"],
                           [first |-> "John", last |-> "Roe", id |-> "2"]>>)
              => pc = "merge" /\ name_cols = <<"first", "last">>

C13_Witness ==
    /\ pc = "merge"
    /\ submissions_df = <<SubmissionOf("Jane Doe"), SubmissionOf("John Roe")>>
    /\ info_df = <<[first |-> "Jane", last |-> "Doe", id |-> "1"],
                   [first |-> "John", last |-> "Roe", id |-> "2"]>>
    /\ name_cols = <<"first", "last">>

====
